---- MODULE Spec2Model ----
(***************************************************************************)
(* Model of the job-posting to Markdown pipeline of markdown-tracker       *)
(* (src/main.py: remote LLM backend, src/local.py: local LLM backend).     *)
(*                                                                         *)
(* Python strings are sequences of one-character strings.  A value that    *)
(* may be None is a record [t, s]: t = "none", or t = "str" with the       *)
(* characters in s.                                                        *)
(***************************************************************************)
EXTENDS Integers, Sequences, FiniteSets, TLC

VARIABLES
    pc,                 \* position of the run
    variant,            \* "remote" (main.py) or "local" (local.py)
    config,             \* which settings the environment / .env file provides
    job_url,            \* main: job_url
    driver,             \* get_page_html_selenium: "none", "open", "closed"
    html_content,       \* main: html_content (None or the page)
    plain_text_context, \* main: plain_text_context (None or text)
    response,           \* the extraction call's reply (or what it raised)
    extracted_data,     \* main: extracted_data (None or the parsed JSON value)
    plain_description,  \* main / formatter argument: the plain description
    fmt_prompt,         \* the description text put into the formatting request
    fmt_response,       \* the formatting call's reply (or what it raised)
    final_description,  \* main: final_description
    final_data,         \* main: final_data (the fields of the document)
    base_filename,      \* main: base_filename / sanitize_filename's argument
    safe_filename,      \* main: safe_filename / sanitize_filename's result
    markdown_content,   \* main: markdown_content
    files,              \* the file system: set of [path, content] written
    outcome,            \* how the run ended
    navCalls,           \* number of driver.get calls
    extractCalls,       \* number of extraction model requests
    formatCalls,        \* number of formatting model requests
    stages              \* the pipeline stages called so far, in order

vars == << pc, variant, config, job_url, driver, html_content, plain_text_context,
           response, extracted_data, plain_description, fmt_prompt,
           fmt_response, final_description, final_data, base_filename,
           safe_filename, markdown_content, files, outcome, navCalls,
           extractCalls, formatCalls, stages >>

(***************************************************************************)
(* Bounds of the model.                                                    *)
(***************************************************************************)
MaxTail == 3       \* longest tail appended to a padded filename
MaxReply == 4      \* longest raw reply of the formatting model
MaxPlain == 4      \* longest short plain description

(***************************************************************************)
(* Python values.                                                          *)
(***************************************************************************)
None == [t |-> "none", s |-> << >>]
Str(s) == [t |-> "str", s |-> s]

\* `if not x` / `if x` for None-or-string values
Truthy(v) == v.t = "str" /\ v.s # << >>

\* a model reply: the text returned, or the class of the exception raised
NoReply == [kind |-> "none", text |-> << >>, cls |-> "none"]
TextReply(s) == [kind |-> "text", text |-> s, cls |-> "none"]
Raise(c) == [kind |-> "raise", text |-> << >>, cls |-> c]

Pad(n) == [i \in 1..n |-> "a"]

Indices(s) == [i \in 1..Len(s) |-> i]

RECURSIVE SeqsUpTo(_, _)
SeqsUpTo(A, n) ==
    IF n = 0 THEN {<< >>}
    ELSE LET shorter == SeqsUpTo(A, n - 1)
         IN  shorter \cup {Append(s, c) : s \in shorter, c \in A}

\* s[:n]
Slice(s, n) == IF Len(s) <= n THEN s ELSE SubSeq(s, 1, n)

\* characters matched by \s and removed by str.strip()
Whitespace == {" ", "\t", "\n", "\r"}
IsSpace(c) == c \in Whitespace

\* str.strip()
strip(s) ==
    LET n == Len(s)
    IN  IF \A i \in 1..n : IsSpace(s[i]) THEN << >>
        ELSE LET first == CHOOSE i \in 1..n :
                              /\ ~IsSpace(s[i])
                              /\ \A j \in 1..(i - 1) : IsSpace(s[j])
                 last  == CHOOSE i \in 1..n :
                              /\ ~IsSpace(s[n + 1 - i])
                              /\ \A j \in 1..(i - 1) : IsSpace(s[n + 1 - j])
             IN  SubSeq(s, first, n + 1 - last)

(***************************************************************************)
(* sanitize_filename                                                       *)
(***************************************************************************)
IllegalChars == {"<", ">", ":", "\"", "/", "\\", "|", "?", "*"}

FilenameLimit == 150

UnnamedJobPosting ==
    <<"U","n","n","a","m","e","d"," ","J","o","b"," ","P","o","s","t","i","n","g">>

\* re.sub(r'[<>:"/\\|?*]', '', name)
RemoveIllegal(name) == SelectSeq(name, LAMBDA c : c \notin IllegalChars)

\* re.sub(r'\s+', ' ', name): every maximal run of whitespace becomes one space
CollapseWhitespace(name) ==
    LET starts == SelectSeq(Indices(name),
                      LAMBDA i : ~(IsSpace(name[i]) /\ i > 1 /\ IsSpace(name[i - 1])))
    IN  [k \in 1..Len(starts) |->
            IF IsSpace(name[starts[k]]) THEN " " ELSE name[starts[k]]]

\* a faulty variant: the final `if name else "Unnamed Job Posting"` is forgotten
sanitize_filename_nofallback(name) ==
    IF ~Truthy(name) THEN UnnamedJobPosting
    ELSE Slice(strip(CollapseWhitespace(RemoveIllegal(name.s))), FilenameLimit)

sanitize_filename(name) ==
    IF ~Truthy(name) THEN UnnamedJobPosting
    ELSE LET cut == Slice(strip(CollapseWhitespace(RemoveIllegal(name.s))),
                          FilenameLimit)
         IN  IF cut # << >> THEN cut ELSE UnnamedJobPosting

(***************************************************************************)
(* create_markdown_content                                                 *)
(***************************************************************************)
\* the literal pieces of the f-string template, in order
T_open ==
    <<"-","-","-","\n","c","o","m","p","a","n","y",":"," ">>

T_role ==
    <<"\n","t","a","g","s",":","\n"," "," ","-"," ","j","o","b","p","o","s","t","\n","r","o",
      "l","e",":"," ">>

T_location ==
    <<"\n","l","o","c","a","t","i","o","n",":"," ">>

T_date ==
    <<"\n","a","p","p","l","i","e","d",":"," ","t","r","u","e","\n","d","a","t","e","_","a","p",
      "p","l","i","e","d",":"," ">>

T_comp ==
    <<"\n","r","e","c","r","u","i","t","e","r","_","s","c","r","e","e","n",":"," ","'","'","\n",
      "i","n","t","e","r","v","i","e","w",":"," ","f","a","l","s","e","\n","r","e","j","e","c",
      "t","i","o","n",":"," ","f","a","l","s","e","\n","d","e","c","l","i","n","e","d",":"," ",
      "f","a","l","s","e","\n","c","o","m","p",":"," ">>

T_req ==
    <<"\n","r","e","q",":"," ">>

T_link ==
    <<"\n","l","i","n","k",":"," ">>

T_desc ==
    <<"\n","-","-","-","\n","\n","#","#"," ","D","e","s","c","r","i","p","t","i","o","n","\n",
      "\n">>

T_close ==
    <<"\n">>

\* content.replace('\r\n', '\n'): a '\r' directly before a '\n' is dropped
ReplaceCRLF(content) ==
    LET n == Len(content)
        kept == SelectSeq(Indices(content),
                    LAMBDA i : ~(content[i] = "\r" /\ i < n /\ content[i + 1] = "\n"))
    IN  [k \in 1..Len(kept) |-> content[kept[k]]]

create_markdown_content(data) ==
    ReplaceCRLF(T_open \o data.company \o T_role \o data.role
                \o T_location \o data.location \o T_date \o data.date_applied
                \o T_comp \o data.comp \o T_req \o data.req
                \o T_link \o data.link \o T_desc \o data.description \o T_close)

(***************************************************************************)
(* Reading a written document back: its lines, its header block and the    *)
(* keys of the header block.                                               *)
(***************************************************************************)
\* content.split('\n')
Lines(content) ==
    LET n == Len(content)
        nl == SelectSeq(Indices(content), LAMBDA i : content[i] = "\n")
    IN  [k \in 1..(Len(nl) + 1) |->
            SubSeq(content,
                   IF k = 1 THEN 1 ELSE nl[k - 1] + 1,
                   IF k <= Len(nl) THEN nl[k] - 1 ELSE n)]

Delimiter == <<"-","-","-">>

\* the index of the line that closes the header block, 0 when there is none
HeaderEnd(lines) ==
    IF Len(lines) < 2 \/ lines[1] # Delimiter
       \/ \A k \in 2..Len(lines) : lines[k] # Delimiter
    THEN 0
    ELSE CHOOSE k \in 2..Len(lines) :
            /\ lines[k] = Delimiter
            /\ \A j \in 2..(k - 1) : lines[j] # Delimiter

\* a line "key: value" or "key:" that starts in column 0
HasKey(line) ==
    /\ line # << >>
    /\ ~IsSpace(line[1])
    /\ line[1] # "-"
    /\ \E i \in 2..Len(line) :
          /\ line[i] = ":"
          /\ i = Len(line) \/ line[i + 1] = " "

KeyOf(line) ==
    LET c == CHOOSE i \in 2..Len(line) :
                /\ line[i] = ":"
                /\ i = Len(line) \/ line[i + 1] = " "
                /\ \A j \in 2..(i - 1) : ~(line[j] = ":" /\ line[j + 1] = " ")
    IN  SubSeq(line, 1, c - 1)

\* the text after "key: " of a line that has a key
ValueOf(line) ==
    LET k == Len(KeyOf(line))
    IN  IF Len(line) <= k + 2 THEN << >> ELSE SubSeq(line, k + 3, Len(line))

\* the keys of the header block of a document, in the order they appear
HeaderKeys(content) ==
    LET lines == Lines(content)
        e == HeaderEnd(lines)
        keyed == SelectSeq([k \in 1..(IF e = 0 THEN 0 ELSE e - 2) |-> k + 1],
                           LAMBDA k : HasKey(lines[k]))
    IN  [i \in 1..Len(keyed) |-> KeyOf(lines[keyed[i]])]

\* the 13 keys of the header block, in the order of the schema
SchemaKeys ==
    << <<"c","o","m","p","a","n","y">>,
       <<"t","a","g","s">>,
       <<"r","o","l","e">>,
       <<"l","o","c","a","t","i","o","n">>,
       <<"a","p","p","l","i","e","d">>,
       <<"d","a","t","e","_","a","p","p","l","i","e","d">>,
       <<"r","e","c","r","u","i","t","e","r","_","s","c","r","e","e","n">>,
       <<"i","n","t","e","r","v","i","e","w">>,
       <<"r","e","j","e","c","t","i","o","n">>,
       <<"d","e","c","l","i","n","e","d">>,
       <<"c","o","m","p">>,
       <<"r","e","q">>,
       <<"l","i","n","k">> >>

DescriptionHeading ==
    <<"#","#"," ","D","e","s","c","r","i","p","t","i","o","n">>

(***************************************************************************)
(* format_description_with_gemini / format_description_with_local_llm      *)
(***************************************************************************)
MAX_TEXT_LENGTH_FOR_GEMINI == 15000
MAX_TEXT_LENGTH_FOR_LLM == 64000

MaxTextLength(v) ==
    IF v = "remote" THEN MAX_TEXT_LENGTH_FOR_GEMINI ELSE MAX_TEXT_LENGTH_FOR_LLM

\* limited_text = plain_description_text[:MAX_TEXT_LENGTH]
LimitedText(v, P) == Slice(P, MaxTextLength(v))

\* classes of the exceptions a model call raises: a transport or API error,
\* ValueError (response.text of a blocked reply), AttributeError (content is
\* None), IndexError (no choices)
ErrorClasses == {"APIError", "ValueError", "AttributeError", "IndexError"}

\* `except Exception as e:` catches every one of them
CaughtByExceptException(cls) == cls \in ErrorClasses

\* a faulty variant: `<=` for `<` in the length check
IsDegenerateAtHalf(F, P) == F = << >> \/ 2 * Len(F) <= Len(P)

\* not formatted_text or len(formatted_text) < len(plain_description_text) * 0.5
IsDegenerate(F, P) == F = << >> \/ 2 * Len(F) < Len(P)

\* a faulty variant: the fallback returns the text that was sent, limited_text
FormatFallbackLimited(v, P) == LimitedText(v, P)

\* return plain_description_text # Fallback
FormatFallback(v, P) == P

\* what the formatter returns for a non-empty P once the model has replied
FormatReturn(v, P, reply) ==
    IF reply.kind = "raise" THEN FormatFallback(v, P)
    ELSE LET formatted_text == strip(reply.text)
         IN  IF IsDegenerate(formatted_text, P) THEN FormatFallback(v, P)
             ELSE formatted_text

\* a faulty variant: a request that raised is sent a second time
FormatCallRetry(P, replies, next) ==
    IF P = << >>
    THEN /\ final_description' = << >>
         /\ pc' = next
         /\ UNCHANGED << fmt_prompt, fmt_response, formatCalls, outcome >>
    ELSE \E reply \in replies :
            /\ fmt_prompt' = LimitedText(variant, P)
            /\ formatCalls' = formatCalls + (IF reply.kind = "raise" THEN 2 ELSE 1)
            /\ fmt_response' = reply
            /\ final_description' = FormatReturn(variant, P, reply)
            /\ pc' = next
            /\ UNCHANGED outcome

\* final_description = format_description_with_...(P), the model answering with
\* one of `replies`; an exception the handler does not catch ends the run
FormatCall(P, replies, next) ==
    IF P = << >>
    THEN /\ final_description' = << >>
         /\ pc' = next
         /\ UNCHANGED << fmt_prompt, fmt_response, formatCalls, outcome >>
    ELSE \E reply \in replies :
            /\ fmt_prompt' = LimitedText(variant, P)
            /\ formatCalls' = formatCalls + 1
            /\ fmt_response' = reply
            /\ IF reply.kind = "raise" /\ ~CaughtByExceptException(reply.cls)
               THEN /\ pc' = "done"
                    /\ outcome' = "crashed"
                    /\ UNCHANGED final_description
               ELSE /\ final_description' = FormatReturn(variant, P, reply)
                    /\ pc' = next
                    /\ UNCHANGED outcome

(***************************************************************************)
(* JSON values and the values of main's variables.                         *)
(***************************************************************************)
\* the value of one key of the extracted object ("absent": the key is missing)
Absent == [t |-> "absent", s |-> << >>]
JStr(s) == [t |-> "str", s |-> s]
JNull == [t |-> "null", s |-> << >>]
JNum == [t |-> "num", s |-> << >>]

NoFields ==
    [company |-> Absent, role |-> Absent, location |-> Absent,
     comp |-> Absent, req |-> Absent, description |-> Absent]

\* a parsed value: a dict with the six keys of the prompt (extra: it has other
\* keys as well), or a list, string, number, boolean (nz: not empty, not zero,
\* not false); "none" is Python's None, "malformed" and "blank" are reply texts
\* that are no JSON
Value(t, nz) == [t |-> t, f |-> NoFields, extra |-> FALSE, nz |-> nz]
PyNone == Value("none", FALSE)
Dict(f, extra) == [t |-> "dict", f |-> f, extra |-> extra, nz |-> FALSE]

\* `if extracted_data:`
PyTruthy(v) ==
    IF v.t = "dict"
    THEN v.extra \/ \E k \in DOMAIN v.f : v.f[k].t # "absent"
    ELSE v.t \in {"list", "str", "num", "bool"} /\ v.nz

\* extracted_data.get(key, '').strip() raises AttributeError unless
\* extracted_data is a dict and the value is a string (or missing)
CanGetStrip(v, key) == v.t = "dict" /\ v.f[key].t \in {"absent", "str"}
GetStrip(v, key) == strip(v.f[key].s)

\* the extraction call's reply: the text, which is its body alone or (fenced)
\* the body between a "```json" line and a "```" line, or the class of the
\* exception raised
NoExtractReply == [kind |-> "none", cls |-> "none", fenced |-> FALSE, body |-> PyNone]
ExtractText(fenced, body) ==
    [kind |-> "text", cls |-> "none", fenced |-> fenced, body |-> body]
ExtractRaise(c) == [kind |-> "raise", cls |-> c, fenced |-> FALSE, body |-> PyNone]

(***************************************************************************)
(* get_page_html_selenium                                                  *)
(***************************************************************************)
\* the rendered page: "none" is None, "empty" the empty string, "html" a page
\* whose first element matching selector i has text matches[i] (None: no
\* match) and whose body has text body (None: no body)
NSelectors == 9
Page(t, matches, body) == [t |-> t, matches |-> matches, body |-> body]
NoMatches == [i \in 1..NSelectors |-> None]
NoPage == Page("none", NoMatches, None)
EmptyPage == Page("empty", NoMatches, None)

\* `if html_content:`
PageTruthy(page) == page.t = "html"

(***************************************************************************)
(* extract_plain_description_text                                          *)
(***************************************************************************)
\* the first selector of the list that matches, 0 when none does
FirstMatch(page) ==
    IF \A i \in 1..NSelectors : page.matches[i].t = "none" THEN 0
    ELSE CHOOSE i \in 1..NSelectors :
            /\ page.matches[i].t # "none"
            /\ \A j \in 1..(i - 1) : page.matches[j].t = "none"

\* a faulty variant: an element whose text is empty counts as no match
extract_plain_description_text_nonempty(page) ==
    IF ~PageTruthy(page) THEN None
    ELSE LET hits == {i \in 1..NSelectors : Truthy(page.matches[i])}
         IN  IF hits # {} THEN page.matches[CHOOSE i \in hits : \A j \in hits : i <= j]
             ELSE page.body

extract_plain_description_text(page) ==
    IF ~PageTruthy(page) THEN None
    ELSE LET m == FirstMatch(page)
         IN  IF m # 0 THEN page.matches[m] ELSE page.body

(***************************************************************************)
(* extract_job_data_with_gemini / extract_job_data_with_local_llm          *)
(***************************************************************************)
\* json.loads of a body that is JSON: null becomes None
Loads(body) == IF body.t = "null" THEN PyNone ELSE body

\* a faulty variant: a reply that does not parse yields an empty record
ParseExtractionDefault(v, reply) ==
    IF reply.kind = "raise" \/ reply.body.t \in {"malformed", "blank"}
    THEN Dict(NoFields, TRUE)
    ELSE IF v = "remote" /\ reply.fenced THEN Dict(NoFields, TRUE)
    ELSE Loads(reply.body)

\* what the function returns once the model has replied: the parsed value, or
\* None after json.JSONDecodeError or any other Exception
ParseExtraction(v, reply) ==
    IF reply.kind = "raise" THEN PyNone
    ELSE IF v = "remote"
    THEN \* json.loads(response.text)
         IF reply.fenced \/ reply.body.t \in {"malformed", "blank"} THEN PyNone
         ELSE Loads(reply.body)
    ELSE \* json.loads(content.strip().lstrip('```json').rstrip('```').strip()):
         \* the fence lines go; lstrip also takes the leading n of a bare or
         \* fenced null, and what is left of it does not parse
         IF reply.body.t \in {"malformed", "blank", "null"} THEN PyNone
         ELSE Loads(reply.body)

(***************************************************************************)
(* main: file name and path                                                *)
(***************************************************************************)
ErrFetch ==
    <<"E","r","r","o","r",":"," ","C","o","u","l","d"," ","n","o","t"," ","f","e","t","c","h",
      " ","p","a","g","e"," ","H","T","M","L",".">>

ErrText ==
    <<"E","r","r","o","r",":"," ","C","o","u","l","d"," ","n","o","t"," ","e","x","t","r","a",
      "c","t"," ","p","a","g","e"," ","t","e","x","t",".">>

ErrExtract ==
    <<"E","r","r","o","r",":"," ","F","a","i","l","e","d"," ","t","o"," ","e","x","t","r","a",
      "c","t"," ","j","o","b"," ","d","a","t","a",".">>

DotMd ==
    <<".","m","d">>

Dash ==
    <<" ","-"," ">>

UnknownCompany ==
    <<"U","n","k","n","o","w","n"," ","C","o","m","p","a","n","y">>

UnknownRole ==
    <<"U","n","k","n","o","w","n"," ","R","o","l","e">>

JobPosting ==
    <<"J","o","b"," ","P","o","s","t","i","n","g"," ">>

SAVE_PATH ==
    <<"/","j","o","b","s">>

PathSep ==
    <<"/">>

\* a faulty variant: the names for a missing company and a missing role are swapped
BaseNameSwapped(company, role, date) ==
    IF company = << >> /\ role = << >> THEN JobPosting \o date
    ELSE IF company = << >> THEN company \o Dash \o UnknownRole
    ELSE IF role = << >> THEN UnknownCompany \o Dash \o role
    ELSE company \o Dash \o role

\* the name before the ".md" of base_filename
BaseName(company, role, date) ==
    IF company = << >> /\ role = << >> THEN JobPosting \o date
    ELSE IF company = << >> THEN UnknownCompany \o Dash \o role
    ELSE IF role = << >> THEN company \o Dash \o UnknownRole
    ELSE company \o Dash \o role

\* base_filename = f"....md"
BaseFilename(company, role, date) == BaseName(company, role, date) \o DotMd

\* os.path.join(SAVE_PATH, safe_filename)
JoinPath(dir, name) == dir \o PathSep \o name

NoData ==
    [company |-> << >>, role |-> << >>, location |-> << >>, comp |-> << >>,
     req |-> << >>, description |-> << >>, link |-> << >>, date_applied |-> << >>]

(***************************************************************************)
(* What the environment can supply to a run.                               *)
(***************************************************************************)
UrlPlain ==
    <<"h",":","/","u">>

UrlTrailingSpace ==
    <<"h",":","/","u"," ">>

UrlTrailingCR ==
    <<"h",":","/","u","\r">>

Date1 ==
    <<"2","0","2","6","-","1","1","-","0","2">>

Date2 ==
    <<"2","0","2","7","-","0","1","-","3","1">>

\* what input() returns
Urls == {UrlPlain, UrlTrailingSpace, UrlTrailingCR}

\* datetime.date.today().strftime('%Y-%m-%d')
Dates == {Date1, Date2}

\* what driver.page_source returns
Pages ==
    { EmptyPage,
      Page("html", NoMatches, None),
      Page("html", NoMatches, Str(<< >>)),
      Page("html", NoMatches, Str(<<"t">>)),
      Page("html", [NoMatches EXCEPT ![5] = Str(<<"j">>)], Str(<<"t">>)) }

\* a name that makes "<company> - <role>.md" longer than the file name limit
LongCompany == Pad(FilenameLimit - MaxTail)

Companies == {Absent, JStr(<<" ">>), JStr(<<" ","A","/","B"," ">>), JStr(LongCompany), JNull}
Roles == {Absent, JStr(<<"R">>), JStr(<<" ","Q"," ","E","n","g">>), JNum}
Descriptions ==
    {Absent, JStr(<< >>), JStr(<<" ","\n">>), JStr(<<" ","d"," ","d","\n">>), JNull}
Others ==
    { [location |-> Absent, comp |-> Absent, req |-> Absent],
      [location |-> JStr(<<"L">>), comp |-> JStr(<<"$","1">>), req |-> JStr(<<"7">>)],
      [location |-> JStr(<<"L">>), comp |-> JNull, req |-> JStr(<< >>)] }

ExtractedDicts ==
    { Dict([company |-> c, role |-> r, location |-> o.location, comp |-> o.comp,
            req |-> o.req, description |-> d], FALSE) :
        c \in Companies, r \in Roles, d \in Descriptions, o \in Others }

\* replies of the extraction model
ExtractReplies ==
    {ExtractRaise("APIError")}
    \cup {ExtractText(FALSE, Value(t, FALSE)) : t \in {"malformed", "blank", "null", "list"}}
    \cup {ExtractText(FALSE, Value(t, TRUE)) : t \in {"list", "num"}}
    \cup {ExtractText(FALSE, Dict(NoFields, e)) : e \in BOOLEAN}
    \cup {ExtractText(fenced, d) : fenced \in {FALSE}, d \in ExtractedDicts}
    \cup {ExtractText(TRUE, Dict([NoFields EXCEPT !.company = JStr(<<"A">>)], FALSE))}

\* replies of the formatting model in a run
RunFormatReplies ==
    { Raise("APIError"), TextReply(<< >>), TextReply(<<" ","b">>),
      TextReply(<<"#"," ","d","\n">>) }

(***************************************************************************)
(* main                                                                    *)
(***************************************************************************)
vRender == << driver, html_content, navCalls >>
vExtract == << response, extracted_data, extractCalls >>
vFormat == << plain_description, fmt_prompt, fmt_response, formatCalls >>
vPersist == << final_data, base_filename, safe_filename, markdown_content, files >>

\* an exception leaves main
Crash ==
    /\ pc' = "done"
    /\ outcome' = "crashed"

\* the settings read at import: save_path is MARKDOWN_SAVE_PATH; backend is
\* GEMINI_API_KEY (main.py) or LOCAL_LLM_BASE_URL (local.py); TRUE: set and
\* not empty
Configs == [save_path : BOOLEAN, backend : BOOLEAN]
Configured == [save_path |-> TRUE, backend |-> TRUE]

\* exit() at import
Exit ==
    /\ pc' = "done"
    /\ outcome' = "config_error"

\* the module-level code before main() is called.  main.py: exit() without
\* GEMINI_API_KEY, exit() without MARKDOWN_SAVE_PATH, exit() when
\* genai.configure raises.  local.py: LOCAL_LLM_BASE_URL is read and not
\* tested, exit() without MARKDOWN_SAVE_PATH, exit() when OpenAI(...) raises
\* (it does not for base_url=None: the client then uses its default address)
CheckConfig ==
    /\ pc = "config"
    /\ IF variant = "remote" /\ ~config.backend THEN Exit
       ELSE IF ~config.save_path THEN Exit
       ELSE \/ Exit
            \/ /\ pc' = "start"
               /\ UNCHANGED outcome
    /\ UNCHANGED << variant, config, job_url, vRender, plain_text_context, vExtract,
                    vFormat, final_description, vPersist, stages >>

\* job_url = input(...)
ReadUrl ==
    /\ pc = "start"
    /\ job_url' \in Urls
    /\ pc' = "start_browser"
    /\ UNCHANGED << variant, config, vRender, plain_text_context, vExtract, vFormat,
                    final_description, vPersist, outcome, stages >>

\* get_page_html_selenium: the driver is installed and started, or that raises
\* and the function returns None with no session
StartBrowser ==
    /\ pc = "start_browser"
    /\ stages' = Append(stages, "render")
    /\ \/ /\ driver' = "open"
          /\ pc' = "navigate"
          /\ UNCHANGED html_content
       \/ /\ html_content' = NoPage
          /\ pc' = "rendered"
          /\ UNCHANGED driver
    /\ UNCHANGED << variant, config, job_url, navCalls, plain_text_context, vExtract,
                    vFormat, final_description, vPersist, outcome >>

\* set_page_load_timeout, driver.get(url), the wait, driver.page_source: the
\* page is returned; or driver.get or page_source raises a WebDriverException
\* (a timeout is one) or another exception and None is returned; or
\* set_page_load_timeout raises before any navigation and None is returned
Navigate ==
    /\ pc = "navigate"
    /\ \/ /\ navCalls' = navCalls + 1
          /\ html_content' \in Pages
       \/ /\ navCalls' = navCalls + 1
          /\ html_content' = NoPage
       \/ /\ UNCHANGED navCalls
          /\ html_content' = NoPage
    /\ pc' = "quit"
    /\ UNCHANGED << variant, config, job_url, driver, plain_text_context, vExtract,
                    vFormat, final_description, vPersist, outcome, stages >>

\* a faulty variant: the session is quit only on the path that returns the page
QuitBrowserOnReturn ==
    /\ pc = "quit"
    /\ driver' = IF PageTruthy(html_content) \/ html_content = EmptyPage
                 THEN "closed" ELSE driver
    /\ pc' = "rendered"
    /\ UNCHANGED << variant, config, job_url, html_content, navCalls, plain_text_context,
                    vExtract, vFormat, final_description, vPersist, outcome,
                    stages >>

\* finally: if driver: driver.quit()
QuitBrowser ==
    /\ pc = "quit"
    /\ driver' = "closed"
    /\ pc' = "rendered"
    /\ UNCHANGED << variant, config, job_url, html_content, navCalls, plain_text_context,
                    vExtract, vFormat, final_description, vPersist, outcome,
                    stages >>

\* if html_content: plain_text_context = extract_plain_description_text(...)
SelectContent ==
    /\ pc = "rendered"
    /\ IF PageTruthy(html_content)
       THEN /\ plain_text_context' = extract_plain_description_text(html_content)
            /\ stages' = Append(stages, "select")
            /\ pc' = "selected"
            /\ UNCHANGED final_description
       ELSE /\ final_description' = ErrFetch
            /\ pc' = "save"
            /\ UNCHANGED << plain_text_context, stages >>
    /\ UNCHANGED << variant, config, job_url, vRender, vExtract, vFormat, vPersist,
                    outcome >>

\* if plain_text_context: extracted_data = extract_job_data_with_...(...)
\* (the function sends one request unless the text is empty)
ExtractData ==
    /\ pc = "selected"
    /\ IF Truthy(plain_text_context)
       THEN /\ stages' = Append(stages, "extract")
            /\ \E reply \in ExtractReplies :
                  /\ extractCalls' = extractCalls + 1
                  /\ response' = reply
                  /\ extracted_data' = ParseExtraction(variant, reply)
            /\ pc' = "extracted"
            /\ UNCHANGED final_description
       ELSE /\ final_description' = ErrText
            /\ pc' = "save"
            /\ UNCHANGED << vExtract, stages >>
    /\ UNCHANGED << variant, config, job_url, vRender, plain_text_context, vFormat,
                    vPersist, outcome >>

\* if extracted_data: plain_description = extracted_data.get('description', '').strip()
GetDescription ==
    /\ pc = "extracted"
    /\ IF ~PyTruthy(extracted_data)
       THEN /\ final_description' = ErrExtract
            /\ pc' = "save"
            /\ UNCHANGED << plain_description, outcome >>
       ELSE IF CanGetStrip(extracted_data, "description")
       THEN /\ plain_description' = GetStrip(extracted_data, "description")
            /\ pc' = "format"
            /\ UNCHANGED << final_description, outcome >>
       ELSE /\ Crash
            /\ UNCHANGED << plain_description, final_description >>
    /\ UNCHANGED << variant, config, job_url, vRender, plain_text_context, vExtract,
                    fmt_prompt, fmt_response, formatCalls, vPersist, stages >>

\* if plain_description: final_description = format_description_with_...(...)
\* else: final_description = ""
FormatDescription ==
    /\ pc = "format"
    /\ IF plain_description # << >>
       THEN /\ stages' = Append(stages, "format")
            /\ FormatCall(plain_description, RunFormatReplies, "save")
       ELSE /\ final_description' = << >>
            /\ pc' = "save"
            /\ UNCHANGED << fmt_prompt, fmt_response, formatCalls, outcome, stages >>
    /\ UNCHANGED << variant, config, job_url, vRender, plain_text_context, vExtract,
                    plain_description, vPersist >>

\* the fields of final_data that are read from extracted_data, in order
StrippedKeys == <<"company", "role", "location", "comp", "req">>

\* if extracted_data: final_data = {...}; base_filename, safe_filename;
\* else: "No file created."
PrepareFile ==
    /\ pc = "save"
    /\ IF ~PyTruthy(extracted_data)
       THEN /\ pc' = "done"
            /\ outcome' = "aborted"
            /\ UNCHANGED << final_data, base_filename, safe_filename, stages >>
       ELSE IF \E i \in 1..Len(StrippedKeys) : ~CanGetStrip(extracted_data, StrippedKeys[i])
       THEN /\ Crash
            /\ stages' = Append(stages, "persist")
            /\ UNCHANGED << final_data, base_filename, safe_filename >>
       ELSE \E today \in Dates :
              LET data == [company |-> GetStrip(extracted_data, "company"),
                           role |-> GetStrip(extracted_data, "role"),
                           location |-> GetStrip(extracted_data, "location"),
                           comp |-> GetStrip(extracted_data, "comp"),
                           req |-> GetStrip(extracted_data, "req"),
                           description |-> strip(final_description),
                           link |-> job_url,
                           date_applied |-> today]
                  name == BaseFilename(data.company, data.role, data.date_applied)
              IN  /\ final_data' = data
                  /\ base_filename' = Str(name)
                  /\ safe_filename' = sanitize_filename(Str(name))
                  /\ stages' = Append(stages, "persist")
                  /\ pc' = "write"
                  /\ UNCHANGED outcome
    /\ UNCHANGED << variant, config, job_url, vRender, plain_text_context, vExtract,
                    vFormat, final_description, markdown_content, files >>

\* os.makedirs, create_markdown_content, open, f.write: the file is written,
\* or an OSError is reported: from makedirs (nothing done), from open (no
\* file), or from write (the file is there and holds nothing)
WriteFile ==
    /\ pc = "write"
    /\ LET full_path == JoinPath(SAVE_PATH, safe_filename)
           content == create_markdown_content(final_data)
       IN  \/ /\ markdown_content' = content
              /\ files' = files \cup {[path |-> full_path, content |-> content]}
              /\ outcome' = "written"
           \/ /\ UNCHANGED << markdown_content, files >>
              /\ outcome' = "io_error"
           \/ /\ markdown_content' = content
              /\ UNCHANGED files
              /\ outcome' = "io_error"
           \/ /\ markdown_content' = content
              /\ files' = files \cup {[path |-> full_path, content |-> << >>]}
              /\ outcome' = "io_error"
    /\ pc' = "done"
    /\ UNCHANGED << variant, config, job_url, vRender, plain_text_context, vExtract,
                    vFormat, final_description, final_data, base_filename,
                    safe_filename, stages >>

\* the values of the variables no input is drawn for
Fresh ==
    /\ job_url = << >>
    /\ driver = "none"
    /\ html_content = NoPage
    /\ plain_text_context = None
    /\ response = NoExtractReply
    /\ extracted_data = PyNone
    /\ fmt_prompt = << >>
    /\ fmt_response = NoReply
    /\ final_description = << >>
    /\ safe_filename = << >>
    /\ markdown_content = << >>
    /\ files = {}
    /\ outcome = "running"
    /\ navCalls = 0
    /\ extractCalls = 0
    /\ formatCalls = 0
    /\ stages = << >>

Init ==
    /\ pc = "config"
    /\ variant \in {"remote", "local"}
    /\ config \in Configs
    /\ plain_description = << >>
    /\ final_data = NoData
    /\ base_filename = None
    /\ Fresh

Next ==
    \/ CheckConfig
    \/ ReadUrl
    \/ StartBrowser
    \/ Navigate
    \/ QuitBrowser
    \/ SelectContent
    \/ ExtractData
    \/ GetDescription
    \/ FormatDescription
    \/ PrepareFile
    \/ WriteFile

Spec == Init /\ [][Next]_vars

(***************************************************************************)
(* SpecSanitize: sanitize_filename applied to a range of names.            *)
(***************************************************************************)
SanAlphabet == {"a", " ", "/", "\n"}

\* lengths of the padding: none, and up to the limit
SanPads == {0} \cup ((FilenameLimit - MaxTail)..FilenameLimit)

SanInputs ==
    {None} \cup {Str(Pad(n) \o tail) : n \in SanPads, tail \in SeqsUpTo(SanAlphabet, MaxTail)}

InitSanitize ==
    /\ pc = "sanitize"
    /\ variant = "remote"
    /\ config = Configured
    /\ plain_description = << >>
    /\ final_data = NoData
    /\ base_filename \in SanInputs
    /\ Fresh

Sanitize ==
    /\ pc = "sanitize"
    /\ safe_filename' = sanitize_filename(base_filename)
    /\ pc' = "sanitized"
    /\ UNCHANGED << variant, config, job_url, vRender, plain_text_context, vExtract,
                    vFormat, final_description, final_data, base_filename,
                    markdown_content, files, outcome, stages >>

NextSanitize == Sanitize

SpecSanitize == InitSanitize /\ [][NextSanitize]_vars

(***************************************************************************)
(* SpecFormat: the formatter applied to a range of descriptions and model  *)
(* behaviours, for both backends.                                          *)
(***************************************************************************)
Bs(n) == [i \in 1..n |-> "b"]

\* short descriptions, and one that is longer than the backend's text limit
FmtPlains(v) ==
    SeqsUpTo({"a", " "}, MaxPlain) \cup {Pad(MaxTextLength(v) + 1)}

\* raw replies: every short one; for the long description, ones just below
\* and at half of its length
FmtReplies(v, P) ==
    {Raise(c) : c \in ErrorClasses}
    \cup {TextReply(r) : r \in SeqsUpTo({"b", " "}, MaxReply)}
    \cup IF Len(P) <= MaxTextLength(v) THEN {}
         ELSE {TextReply(Bs(n)) : n \in {Len(P) \div 2, Len(P) \div 2 + 1}}

InitFormat ==
    /\ pc = "format_call"
    /\ variant \in {"remote", "local"}
    /\ config = Configured
    /\ plain_description \in FmtPlains(variant)
    /\ final_data = NoData
    /\ base_filename = None
    /\ Fresh

Format ==
    /\ pc = "format_call"
    /\ stages' = Append(stages, "format")
    /\ FormatCall(plain_description, FmtReplies(variant, plain_description), "formatted")
    /\ UNCHANGED << variant, config, job_url, vRender, plain_text_context, vExtract,
                    plain_description, vPersist >>

NextFormat == Format

SpecFormat == InitFormat /\ [][NextFormat]_vars

(***************************************************************************)
(* SpecMarkdown: create_markdown_content applied to a range of records.    *)
(***************************************************************************)
MdPlain == {<< >>, <<"x">>}

MdValues ==
    { << >>, <<"a"," ","b">>, <<"a","\n","b">>, <<"a","\n","-","-","-">>,
      <<"a","\n","r","o","l","e",":"," ","b">>, <<"a","\r","\n","b">>,
      <<"a","\r","b">>, <<"a","\r","\r","\n","b">> }

MdDescriptions ==
    { << >>, <<"d">>, <<"d","\n","-","-","-","\n","e">>, <<"d","\r","\n","e">>,
      <<"d","\r","e","\r","\r","\n">> }

\* records in which one of the five extracted fields holds any of MdValues
MdInputs ==
    UNION { { [[company |-> c, role |-> r, location |-> l, comp |-> cp, req |-> rq,
                description |-> d, link |-> UrlPlain, date_applied |-> Date1]
               EXCEPT ![k] = v] :
              c \in MdPlain, r \in MdPlain, l \in MdPlain, cp \in MdPlain,
              rq \in MdPlain, d \in MdDescriptions } :
            k \in {"company", "role", "location", "comp", "req"}, v \in MdValues }

InitMarkdown ==
    /\ pc = "assemble"
    /\ variant = "remote"
    /\ config = Configured
    /\ plain_description = << >>
    /\ final_data \in MdInputs
    /\ base_filename = None
    /\ Fresh

Assemble ==
    /\ pc = "assemble"
    /\ markdown_content' = create_markdown_content(final_data)
    /\ pc' = "assembled"
    /\ UNCHANGED << variant, config, job_url, vRender, plain_text_context, vExtract,
                    vFormat, final_description, final_data, base_filename,
                    safe_filename, files, outcome, stages >>

NextMarkdown == Assemble

SpecMarkdown == InitMarkdown /\ [][NextMarkdown]_vars

(***************************************************************************)
(* SpecSelect: extract_plain_description_text applied to a range of pages. *)
(***************************************************************************)
\* what a selector can give: no element, or an element with this text
SelMatches == {None, Str(<< >>), Str(<<"e">>)}

\* what soup.body can be: no body, or a body with this text
SelBodies == {None, Str(<< >>), Str(<<"e">>), Str(<<"t","t">>)}

\* no page, the empty page, and every page over the matches and the bodies
SelPages ==
    {NoPage, EmptyPage}
    \cup {Page("html", m, b) : m \in [1..NSelectors -> SelMatches], b \in SelBodies}

InitSelect ==
    /\ pc = "select"
    /\ variant = "remote"
    /\ config = Configured
    /\ plain_description = << >>
    /\ final_data = NoData
    /\ base_filename = None
    /\ job_url = << >>
    /\ driver = "none"
    /\ html_content \in SelPages
    /\ plain_text_context = None
    /\ response = NoExtractReply
    /\ extracted_data = PyNone
    /\ fmt_prompt = << >>
    /\ fmt_response = NoReply
    /\ final_description = << >>
    /\ safe_filename = << >>
    /\ markdown_content = << >>
    /\ files = {}
    /\ outcome = "running"
    /\ navCalls = 0
    /\ extractCalls = 0
    /\ formatCalls = 0
    /\ stages = << >>

Select ==
    /\ pc = "select"
    /\ plain_text_context' = extract_plain_description_text(html_content)
    /\ stages' = Append(stages, "select")
    /\ pc' = "selected_text"
    /\ UNCHANGED << variant, config, job_url, vRender, vExtract, vFormat,
                    final_description, vPersist, outcome >>

NextSelect == Select

SpecSelect == InitSelect /\ [][NextSelect]_vars

(***************************************************************************)
(* SpecParse: the parsing of the extraction reply, applied to bare and     *)
(* fenced reply texts, for both backends.                                  *)
(***************************************************************************)
\* bodies: every object of ExtractedDicts, objects without the prompt's keys,
\* other JSON values, and texts that are no JSON
ParseBodies ==
    ExtractedDicts
    \cup {Dict(NoFields, e) : e \in BOOLEAN}
    \cup {Value(t, nz) : t \in {"list", "str", "num", "bool"}, nz \in BOOLEAN}
    \cup {Value(t, FALSE) : t \in {"null", "malformed", "blank"}}

ParseReplies == {ExtractText(fenced, b) : fenced \in BOOLEAN, b \in ParseBodies}

InitParse ==
    /\ pc = "parse"
    /\ variant \in {"remote", "local"}
    /\ config = Configured
    /\ plain_description = << >>
    /\ final_data = NoData
    /\ base_filename = None
    /\ job_url = << >>
    /\ driver = "none"
    /\ html_content = NoPage
    /\ plain_text_context = None
    /\ response \in ParseReplies
    /\ extracted_data = PyNone
    /\ fmt_prompt = << >>
    /\ fmt_response = NoReply
    /\ final_description = << >>
    /\ safe_filename = << >>
    /\ markdown_content = << >>
    /\ files = {}
    /\ outcome = "running"
    /\ navCalls = 0
    /\ extractCalls = 0
    /\ formatCalls = 0
    /\ stages = << >>

Parse ==
    /\ pc = "parse"
    /\ extracted_data' = ParseExtraction(variant, response)
    /\ pc' = "parsed"
    /\ UNCHANGED << variant, config, job_url, vRender, plain_text_context, response,
                    extractCalls, vFormat, final_description, vPersist, outcome,
                    stages >>

NextParse == Parse

SpecParse == InitParse /\ [][NextParse]_vars

(***************************************************************************)
(* The claims.                                                             *)
(***************************************************************************)
Called(stage) == \E i \in 1..Len(stages) : stages[i] = stage

\* get_page_html_selenium has returned and gave no HTML
RenderFailed ==
    /\ pc \notin {"config", "start", "start_browser", "navigate", "quit"}
    /\ Called("render")
    /\ ~PageTruthy(html_content)

\* extract_plain_description_text has returned and gave no text
SelectionFailed == Called("select") /\ ~Truthy(plain_text_context)

\* the extraction request raised, or its reply is not JSON
ExtractionFailed ==
    /\ extractCalls > 0
    /\ \/ response.kind = "raise"
       \/ response.body.t \in {"malformed", "blank"}
       \/ variant = "remote" /\ response.fenced

\* C1: after a failed render, selection or extraction no later stage runs, no
\* model request is issued after a render or selection failure, the formatter
\* is not called after an extraction failure, and no file is written.
C1_FailureAborts ==
    /\ RenderFailed =>
          /\ ~Called("select") /\ ~Called("extract")
          /\ ~Called("format") /\ ~Called("persist")
          /\ extractCalls = 0 /\ formatCalls = 0
          /\ files = {}
    /\ SelectionFailed =>
          /\ ~Called("extract") /\ ~Called("format") /\ ~Called("persist")
          /\ extractCalls = 0 /\ formatCalls = 0
          /\ files = {}
    /\ ExtractionFailed =>
          /\ ~Called("format") /\ ~Called("persist")
          /\ formatCalls = 0
          /\ files = {}
    /\ (pc = "done" /\ (RenderFailed \/ SelectionFailed \/ ExtractionFailed)) =>
          outcome = "aborted"

C1_Witness ==
    /\ pc = "done"
    /\ ExtractionFailed
    /\ response.kind = "text"
    /\ response.body.t = "malformed"
    /\ outcome = "aborted"
    /\ files = {}

\* the formatting request has been answered
FormatAnswered == pc \in {"formatted", "done"} /\ fmt_response.kind # "none"

\* C2: for a non-empty description and any behaviour of the model, the formatter
\* returns without raising, and returns the model's rewritten text or the whole
\* original description.
C2_FormatterNeverFails ==
    FormatAnswered =>
        /\ outcome # "crashed"
        /\ pc = "formatted"
        /\ \/ final_description = plain_description
           \/ /\ fmt_response.kind = "text"
              /\ final_description = strip(fmt_response.text)

C2_Witness ==
    /\ pc = "formatted"
    /\ fmt_response.kind = "raise"
    /\ Len(plain_description) > Len(fmt_prompt)
    /\ final_description = plain_description

\* C3: with F the trimmed reply, the formatter returns the original P when F is
\* empty or shorter than half of the full P, and F otherwise.
C3_FallbackRule ==
    (FormatAnswered /\ fmt_response.kind = "text") =>
        LET F == strip(fmt_response.text)
            P == plain_description
            half == (Len(P) + 1) \div 2      \* the least length that is not below half
        IN  final_description = IF Len(F) = 0 \/ Len(F) < half THEN P ELSE F

C3_Witness ==
    /\ pc = "formatted"
    /\ fmt_response.kind = "text"
    /\ Len(plain_description) > 0
    /\ 2 * Len(strip(fmt_response.text)) = Len(plain_description)
    /\ final_description = strip(fmt_response.text)
    /\ final_description # plain_description

\* C4: sanitizing an already sanitized name yields the same name.
C4_Idempotent ==
    pc = "sanitized" => sanitize_filename(Str(safe_filename)) = safe_filename

\* the name is made only of whitespace and illegal characters (or is empty or None)
NothingLeft(name) ==
    ~Truthy(name) \/ \A i \in 1..Len(name.s) : name.s[i] \in IllegalChars \cup Whitespace

\* C5: the sanitized name is never empty, is at most 150 characters long, holds
\* no illegal character, and is the default name when nothing is left.
C5_SanitizeResult ==
    pc = "sanitized" =>
        /\ safe_filename # << >>
        /\ Len(safe_filename) <= 150
        /\ \A i \in 1..Len(safe_filename) : safe_filename[i] \notin IllegalChars
        /\ NothingLeft(base_filename) => safe_filename = UnnamedJobPosting

C5_Witness ==
    /\ pc = "sanitized"
    /\ Truthy(base_filename)
    /\ Len(base_filename.s) > 150
    /\ \E i \in 1..Len(base_filename.s) : base_filename.s[i] \in IllegalChars
    /\ Len(safe_filename) = 150

\* the lines after the header block, the heading and the blank line after it
DescriptionSection(content) ==
    LET lines == Lines(content)
        e == HeaderEnd(lines)
    IN  SubSeq(lines, e + 4, Len(lines))

\* the document has a header block with the 13 keys, in order and once each,
\* then the heading, then the description
WellFormed(content, description) ==
    LET lines == Lines(content)
        e == HeaderEnd(lines)
    IN  /\ e # 0
        /\ HeaderKeys(content) = SchemaKeys
        /\ Len(lines) >= e + 3
        /\ lines[e + 1] = << >>
        /\ lines[e + 2] = DescriptionHeading
        /\ lines[e + 3] = << >>
        /\ DescriptionSection(content) = Lines(ReplaceCRLF(description \o T_close))

\* C6: for every combination of field values the document has a header block
\* between two '---' lines holding exactly the 13 keys, once each and in order,
\* followed by the '## Description' heading and the description.
C6_HeaderSchema ==
    pc = "assembled" => WellFormed(markdown_content, final_data.description)

\* C7: the file of a successful run is at SAVE_PATH/<sanitized name>.md, the
\* sanitized name being the one derived from company and role.
C7_PathHasExtension ==
    \A f \in files :
        f.path = JoinPath(SAVE_PATH,
                     sanitize_filename(Str(BaseName(final_data.company, final_data.role,
                                                    final_data.date_applied)))
                     \o DotMd)

\* YYYY-MM-DD
IsIsoDate(d) ==
    /\ Len(d) = 10
    /\ d[5] = "-" /\ d[8] = "-"
    /\ \A i \in {1, 2, 3, 4, 6, 7, 9, 10} :
          d[i] \in {"0", "1", "2", "3", "4", "5", "6", "7", "8", "9"}

\* C8: the base name is made of the trimmed company and role: both, or
\* "Unknown Company" for a missing company, or "Unknown Role" for a missing
\* role, or "Job Posting <date>" when both are missing.
C8_FilenameDerivation ==
    (pc \in {"write", "done"} /\ base_filename.t = "str") =>
        LET c == strip(extracted_data.f.company.s)
            r == strip(extracted_data.f.role.s)
            d == final_data.date_applied
            name == base_filename.s
        IN  /\ (c # << >> /\ r # << >>) => name = c \o Dash \o r \o DotMd
            /\ (c = << >> /\ r # << >>) => name = UnknownCompany \o Dash \o r \o DotMd
            /\ (c # << >> /\ r = << >>) => name = c \o Dash \o UnknownRole \o DotMd
            /\ (c = << >> /\ r = << >>) => name = JobPosting \o d \o DotMd /\ IsIsoDate(d)

C8_Witness ==
    /\ pc = "done"
    /\ outcome = "written"
    /\ extracted_data.f.company = JStr(<<" ">>)
    /\ extracted_data.f.role.s = <<" ","Q"," ","E","n","g">>
    /\ base_filename.s = UnknownCompany \o Dash \o <<"Q"," ","E","n","g">> \o DotMd

\* the values of the 'link' lines of the header block of a document
LinkValues(content) ==
    LET lines == Lines(content)
        e == HeaderEnd(lines)
        links == SelectSeq([k \in 1..(IF e = 0 THEN 0 ELSE e - 2) |-> k + 1],
                     LAMBDA k : HasKey(lines[k]) /\ KeyOf(lines[k]) = <<"l","i","n","k">>)
    IN  [i \in 1..Len(links) |-> ValueOf(lines[links[i]])]

\* C9: the 'link' line of a written document holds the URL of the run, unchanged.
C9_LinkRoundTrip ==
    outcome = "written" =>
        \A f \in files : LinkValues(f.content) = << job_url >>

\* the extracted record has no description: the key is missing or its text is
\* empty or whitespace
DescriptionEmpty ==
    /\ PyTruthy(extracted_data)
    /\ extracted_data.t = "dict"
    /\ extracted_data.f.description.t \in {"absent", "str"}
    /\ strip(extracted_data.f.description.s) = << >>

\* C10: when extraction succeeds with an empty description, no formatting
\* request is issued, the document is written (unless the file system fails),
\* its description section is empty and its header holds the 13 keys.
C10_EmptyDescription ==
    (pc = "done" /\ DescriptionEmpty /\ outcome # "io_error") =>
        /\ formatCalls = 0
        /\ outcome = "written"
        /\ files # {}
        /\ \A f \in files :
              /\ HeaderKeys(f.content) = SchemaKeys
              /\ \A i \in 1..Len(DescriptionSection(f.content)) :
                    DescriptionSection(f.content)[i] = << >>

\* C11: the text returned is that of the element matched by the earliest
\* selector of the list that matches, whatever later selectors match and
\* whatever its text is; the body is used only when no selector matches.
C11_FirstMatchWins ==
    (pc = "selected_text" /\ PageTruthy(html_content)) =>
        /\ \A i \in 1..NSelectors :
              (/\ html_content.matches[i] # None
               /\ \A j \in 1..(i - 1) : html_content.matches[j] = None)
              => plain_text_context = html_content.matches[i]
        /\ (\A i \in 1..NSelectors : html_content.matches[i] = None)
              => plain_text_context = html_content.body

C11_Witness ==
    /\ pc = "selected_text"
    /\ html_content.t = "html"
    /\ html_content.matches[1] = None
    /\ html_content.matches[2] = Str(<< >>)
    /\ html_content.matches[3] = Str(<<"e">>)
    /\ html_content.body = Str(<<"t","t">>)
    /\ plain_text_context = Str(<< >>)

\* get_page_html_selenium has returned
RenderReturned == pc \notin {"config", "start", "start_browser", "navigate", "quit"}

\* C12: once get_page_html_selenium has returned, a session that was created
\* has been quit, whether the page was returned or navigation or anything else
\* failed; no later stage runs while a session is open.
C12_SessionReleased ==
    /\ RenderReturned => driver # "open"
    /\ (RenderReturned /\ navCalls > 0) => driver = "closed"
    /\ (Called("select") \/ Called("extract") \/ Called("format") \/ Called("persist"))
          => driver # "open"
    /\ (extractCalls > 0 \/ formatCalls > 0 \/ files # {}) => driver # "open"

C12_Witness ==
    /\ pc = "done"
    /\ navCalls = 1
    /\ html_content = NoPage
    /\ driver = "closed"
    /\ outcome = "aborted"

\* the destination directory or the backend's setting is absent
ConfigMissing == ~config.save_path \/ ~config.backend

\* C13: with the destination directory or the backend's setting (remote:
\* credential; local: base address) absent, the process exits before the URL
\* is read, before any navigation and before any model request.
C13_ConfigHalts ==
    ConfigMissing =>
        /\ pc \in {"config", "done"}
        /\ pc = "done" => outcome = "config_error"
        /\ job_url = << >>
        /\ stages = << >>
        /\ navCalls = 0 /\ extractCalls = 0 /\ formatCalls = 0
        /\ files = {}

\* main is past the call of the extraction function
PastExtraction == pc \in {"extracted", "format", "save", "write", "done"}

\* C14: in a run the navigation is attempted at most once, the extraction
\* request is issued at most once, and exactly once when selection gave
\* non-empty text; the formatting request is issued at most once and only after
\* the extraction request succeeded; after a failed call its stage issues
\* nothing more.
C14_NoRetry ==
    /\ navCalls <= 1 /\ extractCalls <= 1 /\ formatCalls <= 1
    /\ (PastExtraction /\ Truthy(plain_text_context)) => extractCalls = 1
    /\ extractCalls = 1 => (navCalls = 1 /\ Truthy(plain_text_context))
    /\ formatCalls = 1 =>
          /\ extractCalls = 1
          /\ response.kind = "text"
          /\ PyTruthy(extracted_data)
    /\ (RenderReturned /\ ~PageTruthy(html_content)) =>
          (extractCalls = 0 /\ formatCalls = 0)
    /\ ExtractionFailed => formatCalls = 0

C14_Witness ==
    /\ pc = "done"
    /\ navCalls = 1
    /\ extractCalls = 1
    /\ formatCalls = 1
    /\ fmt_response.kind = "raise"
    /\ outcome = "written"

\* C15: for both backends, a reply that is a JSON object between ```json
\* fences gives the same fields as the bare object, and a reply that does not
\* parse once the fences are gone gives no record.
C15_FenceStripped ==
    pc = "parsed" =>
        /\ (response.fenced /\ response.body.t = "dict") =>
              /\ extracted_data = response.body
              /\ extracted_data = ParseExtraction(variant, ExtractText(FALSE, response.body))
        /\ response.body.t \in {"malformed", "blank"} => extracted_data = PyNone

\* C16: whatever mix of '\r\n', lone '\r' and '\r\r\n' the field values and the
\* description hold, the text of the document has no carriage return.
C16_NoCarriageReturn ==
    pc = "assembled" =>
        \A i \in 1..Len(markdown_content) : markdown_content[i] # "\r"

\* the extraction reply parsed to a JSON object
ParsedObject == extracted_data.t = "dict"

\* the object has none of the keys the program reads
NoKnownKeys == \A k \in DOMAIN extracted_data.f : extracted_data.f[k].t = "absent"

\* C17: whenever the reply parses to a JSON object the run writes a document
\* (unless the file system fails), a missing key giving an empty field; for an
\* object with no keys the document is named "Job Posting <date>" and all its
\* fields are empty.
C17_ObjectIsSuccess ==
    (pc = "done" /\ ParsedObject /\ outcome # "io_error") =>
        /\ outcome = "written"
        /\ files # {}
        /\ \A i \in 1..Len(StrippedKeys) :
              extracted_data.f[StrippedKeys[i]].t = "absent"
                  => final_data[StrippedKeys[i]] = << >>
        /\ NoKnownKeys =>
              /\ base_filename = Str(JobPosting \o final_data.date_applied \o DotMd)
              /\ final_data.description = << >>

\* C18: whatever the extraction reply parses to (an object with string, null
\* or numeric values, an array, a scalar), the run ends with a document
\* written, or a reported failure of the file system, or an abort with no file
\* written; it never ends with an error raised out of main().
C18_NoUnhandledError ==
    (pc = "done" /\ extractCalls = 1 /\ response.kind = "text") =>
        /\ outcome \in {"written", "aborted", "io_error"}
        /\ outcome = "aborted" => files = {}
        /\ outcome = "written" =>
              \E f \in files : f.content = create_markdown_content(final_data)

====
